---- MODULE Spec2Model ----
(***************************************************************************)
(* LibroBuddy backend: the order-placement / stock-reservation workflow    *)
(* (POST /api/orders), the order status transition with conditional        *)
(* restock (PUT /api/orders/:id/status), the admin book routes (POST       *)
(* /api/books, PUT and DELETE /api/books/:id), the supplier-order routes   *)
(* (POST /api/supplier-orders, PUT /api/supplier-orders/:id/status), the   *)
(* mock payment (POST /api/process-payment) and the registration (POST     *)
(* /api/auth/register), as they run on the one shared sqlite3 connection   *)
(* `db` of the Express server.                                             *)
(*                                                                         *)
(* Execution model.  Every db.run / db.get / db.all call creates a         *)
(* statement that is executed later, off the JavaScript thread; when it    *)
(* has executed, its callback runs on the JavaScript thread.  One step of  *)
(* the model is the execution of one statement followed by its callback    *)
(* (the callback only reads the statement's own result, updates the        *)
(* request's local variables and issues further statements).  Statements   *)
(* issued in the connection's default (parallel) mode that are in flight   *)
(* together execute in any order.  A statement issued inside               *)
(* db.serialize() runs exclusively: it is queued while other statements    *)
(* are in flight and, while it runs, statements issued meanwhile wait in   *)
(* the connection's queue.  All requests share the connection, hence share *)
(* its single transaction state.                                           *)
(*                                                                         *)
(* An exception that escapes a callback (a second res.json() on the same   *)
(* response, or the 'error' event of a statement that failed and was given *)
(* no callback) is uncaught: the server process exits, the statements in   *)
(* flight are lost and SQLite discards the open transaction.               *)
(*                                                                         *)
(* Spec is the server receiving any of the requests on orders, books,      *)
(* supplier orders and payments, several at a time; SpecOrders receives    *)
(* placements only, several at a time; SpecSerial receives placements and  *)
(* status transitions one at a time, with the wider set of carts;          *)
(* SpecSerialAll receives any of those requests one at a time; SpecActors  *)
(* receives placements by users of every role, one at a time; SpecRoles    *)
(* receives the two kinds of status update by users of every role, one at  *)
(* a time; SpecSupplierSeq and SpecStatusSeq receive up to MaxSeq          *)
(* supplier-order, resp. order, status updates one at a time; SpecCancel   *)
(* receives up to MaxSeq cancellations, several at a time; SpecRegister    *)
(* receives registrations, several at a time.  SpecOrdersLive and          *)
(* SpecSerialLive add the fairness of the thread pool that executes the    *)
(* statements: a statement that can be executed eventually is.             *)
(***************************************************************************)
EXTENDS Integers, Sequences, FiniteSets, TLC

\* ------------------------------------------------------------------ bounds
MaxReq == 2        \* HTTP requests handled in one behaviour
MaxLines == 2      \* lines of a cart
MaxQty == 2        \* largest quantity a cart line asks for
MaxFaults == 1     \* storage errors injected into restock UPDATEs
MaxSeq == 3        \* status requests of SpecSupplierSeq, SpecStatusSeq and SpecCancel
MaxIv == 2         \* distinct initialisation vectors crypto.randomBytes returns

\* ------------------------------------------------------------- vocabulary
Books == {1, 2}                 \* ids of the rows of table books
MissingBook == Cardinality(Books) + 1      \* an id that names no seeded row
ReqIds == 1..(IF MaxSeq > MaxReq THEN MaxSeq ELSE MaxReq)

\* Variant: a validation that also lets 'refunded' through.
validStatusesLax == {"pending", "processing", "shipped", "delivered", "cancelled", "refunded"}

\* const validStatuses = ['pending', 'processing', 'shipped', 'delivered', 'cancelled']
validStatuses == {"pending", "processing", "shipped", "delivered", "cancelled"}
Targets == validStatuses \cup {"refunded"}      \* "refunded" is not a valid status

VARIABLES
  alive,     \* the server process is running
  store,     \* the SQLite database as seen through the shared connection
  conn,      \* node-sqlite3 Database object: statements in flight, queue, lock
  req,       \* per request: its inputs, closure variables and response
  nreq,      \* number of requests received so far
  faults,    \* storage errors injected so far
  lastEnd    \* history: who ended the last transaction, and whose writes it held

vars == <<alive, store, conn, req, nreq, faults, lastEnd>>

\* --------------------------------------------------------------- the store
\* Variant: table books without the CHECK on stock_quantity.
CheckStockOff(v) == TRUE

\* books.stock_quantity ... CHECK(stock_quantity >= 0)
CheckStock(v) == v >= 0

\* Variant: table orders without the CHECK on status.
CheckStatusOff(st) == TRUE

\* orders.status ... CHECK(status IN ('pending', 'processing', ...))
CheckStatus(st) == st \in {"pending", "processing", "shipped", "delivered", "cancelled"}

\* books.price ... CHECK(price >= 0)
CheckPrice(v) == v >= 0

\* supplier_orders.status ... CHECK(status IN ('Pending', 'Shipped', ...))
CheckSupplierStatus(st) == st \in {"Pending", "Shipped", "Received", "Cancelled"}

\* employee_id ... : null (ids of rows start at 1)
Null == 0

\* The users a token can name: the seeded admin, customer and cashier, and a
\* manager; req.user = { userId, role } as signed at login.
Users == { [userId |-> 1, role |-> "admin"], [userId |-> 2, role |-> "customer"],
           [userId |-> 3, role |-> "cashier"], [userId |-> 4, role |-> "manager"] }
Customer == [userId |-> 2, role |-> "customer"]
Admin == [userId |-> 1, role |-> "admin"]

\* Variant: a route that lets every authenticated user through.
checkRoleOpen(allowedRoles, user) == TRUE

\* checkRole(allowedRoles): allowedRoles.includes(req.user.role)
checkRole(allowedRoles, user) == user.role \in allowedRoles

\* requireAdmin: req.user.role === 'admin'
requireAdmin(user) == checkRole({"admin"}, user)

\* What the seeded database holds (book_seq: the last id that AUTOINCREMENT
\* gave to a book, ids are never used again): two books, two supplier orders that have
\* not been received (one of them created with a negative quantity, which
\* POST /api/supplier-orders accepts), and possibly one earlier order.
\* ---------------------------------------------------------------- accounts
\* A string is a sequence of tokens: a word, or one of the characters the code
\* looks at ("<", ">", "@", ".", " ").  A value of a TEXT column is
\* [iv, text]: with iv in IVs it stands for hex(iv) ':' hex(AES-256-CBC of
\* text under the server's key and iv), which is injective in text, so two
\* such values are equal exactly when their IVs and texts are; with iv = 0 it
\* is the plain string text.
IVs == 1..MaxIv
Plain(text) == [iv |-> 0, text |-> text]

\* sanitizeInput: input.replace(/[<>]/g, '')
sanitizeInput(input) == SelectSeq(input, LAMBDA c : c \notin {"<", ">"})

\* isValidEmail: /^[^\s@]+@[^\s@]+\.[^\s@]+$/.test(email)
isValidEmail(email) ==
  \E at \in 2..Len(email), dot \in 1..Len(email) :
    /\ email[at] = "@" /\ email[dot] = "."
    /\ at + 1 < dot /\ dot < Len(email)
    /\ \A k \in 1..Len(email) : /\ email[k] # " "
                               /\ email[k] = "@" => k = at

\* encryptData(text) with the iv that crypto.randomBytes returned.
encryptData(text, iv) == [iv |-> iv, text |-> text]

\* decryptData(encryptedText): the text under the cipher; a value that is not
\* iv:ciphertext makes createDecipheriv throw and is returned as it is.
decryptData(encryptedText) == encryptedText.text

John == <<"john", "@", "example", ".", "com">>
Ann == <<"ann", "@", "example", ".", "com">>

\* The rows of table users the seed inserts (username, email).
UserRows0 ==
  << [username |-> <<"admin">>, email |-> Plain(<<"admin", "@", "librobuddy", ".", "com">>)],
     [username |-> <<"johndoe">>, email |-> Plain(John)],
     [username |-> <<"cashier">>, email |-> Plain(<<"cashier", "@", "librobuddy", ".", "com">>)] >>

Stock0 == [b \in Books |-> IF b = 1 THEN 2 ELSE 1]
Price0 == [b \in Books |-> IF b = 1 THEN 10 ELSE 7]
Items0 == << [order_id |-> 1, book_id |-> 1, quantity |-> 1, price_at_purchase |-> 10],
             [order_id |-> 1, book_id |-> 2, quantity |-> 1, price_at_purchase |-> 7] >>
Supplier0 == << [book_id |-> 1, quantity |-> 2, status |-> "Pending"],
                [book_id |-> 2, quantity |-> -3, status |-> "Pending"] >>
Db0 == { [stock |-> Stock0, price |-> Price0, orders |-> <<>>, items |-> <<>>,
          supplier_orders |-> Supplier0, book_seq |-> Cardinality(Books),
          users |-> UserRows0] }
       \cup { [stock |-> Stock0, price |-> Price0,
               orders |-> << [status |-> st, total_amount |-> 17,
                              user_id |-> Customer.userId, employee_id |-> Null] >>,
               items |-> Items0,
               supplier_orders |-> Supplier0, book_seq |-> Cardinality(Books),
               users |-> UserRows0]
              : st \in {"pending", "cancelled"} }

\* A statement: op names the SQL text, r the request whose handler issued it,
\* i the cart line / item it belongs to (0: none), a the values bound to its
\* placeholders together with the values its callback's closure captured.
Stmt(op, r, i, a) == [op |-> op, r |-> r, i |-> i, a |-> a]

\* The store refuses the statement: SQLite's transaction state errors
\* ("cannot start a transaction within a transaction", "cannot commit /
\* rollback - no transaction is active") and the schema's constraints.
Rejects(s, stmt) ==
  CASE stmt.op \in {"P_BEGIN", "S_BEGIN"} -> s.inTxn
    [] stmt.op \in {"P_COMMIT", "S_COMMIT", "ROLLBACK"} -> ~s.inTxn
    [] stmt.op = "P_UPD" ->
         /\ stmt.a[1] \in DOMAIN s.db.stock
         /\ ~CheckStock(s.db.stock[stmt.a[1]] - stmt.a[2])
    [] stmt.op = "P_INSITEM" ->        \* FOREIGN KEY (order_id), (book_id)
         \/ stmt.a[1] \notin 1..Len(s.db.orders)
         \/ stmt.a[2] \notin DOMAIN s.db.stock
    [] stmt.op = "S_UPD" ->
         /\ stmt.a[1] \in 1..Len(s.db.orders)
         /\ ~CheckStatus(stmt.a[2])
    [] stmt.op = "PAY_UPD" ->
         /\ stmt.a[1] \in 1..Len(s.db.orders)
         /\ ~CheckStatus(stmt.a[2])
    [] stmt.op = "B_INS" -> ~CheckPrice(stmt.a[1]) \/ ~CheckStock(stmt.a[2])
    [] stmt.op = "B_UPD" ->
         /\ stmt.a[1] \in DOMAIN s.db.stock
         /\ ~CheckPrice(stmt.a[2]) \/ ~CheckStock(stmt.a[3])
    [] stmt.op = "B_DEL" ->            \* FOREIGN KEY (book_id) REFERENCES books(id)
         \/ \E k \in DOMAIN s.db.items : s.db.items[k].book_id = stmt.a[1]
         \/ \E k \in DOMAIN s.db.supplier_orders : s.db.supplier_orders[k].book_id = stmt.a[1]
    [] stmt.op = "SO_INS" -> stmt.a[1] \notin DOMAIN s.db.stock   \* FOREIGN KEY (book_id)
    [] stmt.op = "SS_UPD" ->
         /\ stmt.a[1] \in 1..Len(s.db.supplier_orders)
         /\ ~CheckSupplierStatus(stmt.a[2])
    [] stmt.op = "SS_STOCK" ->
         /\ stmt.a[1] \in DOMAIN s.db.stock
         /\ ~CheckStock(s.db.stock[stmt.a[1]] + stmt.a[2])
    [] stmt.op = "U_INS" ->            \* username TEXT UNIQUE, email TEXT UNIQUE
         \E k \in DOMAIN s.db.users :
           \/ s.db.users[k].username = stmt.a[1]
           \/ s.db.users[k].email = stmt.a[2]
    [] OTHER -> FALSE

\* A write through the connection: part of the open transaction, or committed
\* at once in autocommit mode.  writers (history) is the set of requests whose
\* writes the open transaction holds.
Write(s, newdb, r) ==
  IF s.inTxn THEN [s EXCEPT !.db = newdb, !.writers = @ \cup {r}]
  ELSE [s EXCEPT !.db = newdb, !.committed = newdb]

SqlBegin(s) == [s EXCEPT !.inTxn = TRUE]
SqlCommit(s) == [db |-> s.db, committed |-> s.db, inTxn |-> FALSE, writers |-> {}]
SqlRollback(s) == [db |-> s.committed, committed |-> s.committed, inTxn |-> FALSE, writers |-> {}]

\* Variant: an UPDATE of the stock that changes nothing.
SqlUpdateStockLost(s, book, delta, r) == s

\* Variant: an UPDATE that moves the stock by one copy whatever the quantity.
SqlUpdateStockByOne(s, book, delta, r) ==
  IF book \in DOMAIN s.db.stock
  THEN Write(s, [s.db EXCEPT !.stock[book] = IF delta < 0 THEN @ - 1 ELSE @ + 1], r)
  ELSE s

\* UPDATE books SET stock_quantity = stock_quantity + delta WHERE id = book
SqlUpdateStock(s, book, delta, r) ==
  IF book \in DOMAIN s.db.stock
  THEN Write(s, [s.db EXCEPT !.stock[book] = @ + delta], r)
  ELSE s

\* INSERT INTO orders (..., total_amount, status) VALUES (..., total, 'pending')
SqlInsertOrder(s, user_id, employee_id, total, st, r) ==
  Write(s, [s.db EXCEPT !.orders = Append(@, [status |-> st, total_amount |-> total,
                                              user_id |-> user_id,
                                              employee_id |-> employee_id])], r)

\* INSERT INTO order_items (order_id, book_id, quantity, price_at_purchase)
SqlInsertItem(s, a, r) ==
  Write(s, [s.db EXCEPT !.items = Append(@, [order_id |-> a[1], book_id |-> a[2],
                                             quantity |-> a[3], price_at_purchase |-> a[4]])], r)

\* UPDATE orders SET status = ?, updated_at = CURRENT_TIMESTAMP WHERE id = ?
SqlUpdateStatus(s, id, st, r) ==
  IF id \in 1..Len(s.db.orders)
  THEN Write(s, [s.db EXCEPT !.orders[id].status = st], r)
  ELSE s

\* INSERT INTO books (..., price, stock_quantity, ...) VALUES (...)
SqlInsertBook(s, price, stock_quantity, r) ==
  LET id == s.db.book_seq + 1
      ids == DOMAIN s.db.stock \cup {id}
  IN Write(s, [s.db EXCEPT
                 !.stock = [b \in ids |-> IF b = id THEN stock_quantity ELSE s.db.stock[b]],
                 !.price = [b \in ids |-> IF b = id THEN price ELSE s.db.price[b]],
                 !.book_seq = id], r)

\* INSERT INTO users (username, email, password_hash) VALUES (?, ?, ?)
SqlInsertUser(s, username, email, r) ==
  Write(s, [s.db EXCEPT !.users = Append(@, [username |-> username, email |-> email])], r)

\* DELETE FROM books WHERE id = ?
SqlDeleteBook(s, id, r) ==
  IF id \in DOMAIN s.db.stock
  THEN Write(s, [s.db EXCEPT !.stock = [b \in DOMAIN s.db.stock \ {id} |-> s.db.stock[b]],
                             !.price = [b \in DOMAIN s.db.price \ {id} |-> s.db.price[b]]], r)
  ELSE s

\* Variant: an UPDATE of a book that reprices the order items of that book.
SqlUpdateBookReprice(s, id, price, stock_quantity, r) ==
  IF id \in DOMAIN s.db.stock
  THEN Write(s, [s.db EXCEPT !.stock[id] = stock_quantity, !.price[id] = price,
                             !.items = [k \in DOMAIN @ |->
                                          IF @[k].book_id = id
                                          THEN [@[k] EXCEPT !.price_at_purchase = price]
                                          ELSE @[k]]], r)
  ELSE s

\* UPDATE books SET ..., price = ?, stock_quantity = ?, ... WHERE id = ?
SqlUpdateBook(s, id, price, stock_quantity, r) ==
  IF id \in DOMAIN s.db.stock
  THEN Write(s, [s.db EXCEPT !.stock[id] = stock_quantity, !.price[id] = price], r)
  ELSE s

\* INSERT INTO supplier_orders (book_id, supplier_id, quantity, expected_delivery)
SqlInsertSupplierOrder(s, book_id, quantity, r) ==
  Write(s, [s.db EXCEPT !.supplier_orders =
              Append(@, [book_id |-> book_id, quantity |-> quantity, status |-> "Pending"])], r)

\* UPDATE supplier_orders SET status = ? WHERE id = ?
SqlUpdateSupplierStatus(s, id, st, r) ==
  IF id \in 1..Len(s.db.supplier_orders)
  THEN Write(s, [s.db EXCEPT !.supplier_orders[id].status = st], r)
  ELSE s

\* ---------------------------------------------------------- the connection
\* node-sqlite3 Database: statements in flight (pending), calls waiting
\* (queue), and the lock an exclusive (serialized) call holds.
EmptyConn == [pending |-> {}, queue |-> <<>>, locked |-> FALSE]

\* Database::Schedule: a call waits if the connection is locked or the call is
\* serialized while statements are in flight; otherwise it starts at once.
Schedule(c, stmt, serialize) ==
  IF (c.locked \/ serialize) /\ c.pending # {}
  THEN [c EXCEPT !.queue = Append(@, [call |-> stmt, exclusive |-> serialize])]
  ELSE [c EXCEPT !.locked = FALSE, !.pending = @ \cup {stmt}]

\* Database::Process: start waiting calls, an exclusive one only when nothing
\* is in flight, and nothing after it until it is done.
RECURSIVE Process(_)
Process(c) ==
  IF (~c.locked \/ c.pending = {}) /\ c.queue # <<>>
  THEN LET h == Head(c.queue) IN
       IF h.exclusive /\ c.pending # {} THEN c
       ELSE Process([pending |-> c.pending \cup {h.call}, queue |-> Tail(c.queue),
                     locked |-> h.exclusive])
  ELSE c

\* ------------------------------------------------- the JavaScript side
\* j = [conn, req, alive]: what a handler or callback reads and writes.
\* db.run / db.get / db.all in the default (parallel) mode
Run(j, stmt) == IF j.alive THEN [j EXCEPT !.conn = Schedule(@, stmt, FALSE)] ELSE j

\* res.status(code).json(...): the first call sends the response; a second
\* call on the same response throws ERR_HTTP_HEADERS_SENT.
Send(j, r, code) ==
  IF ~j.alive THEN j
  ELSE IF j.req[r].res = 0 THEN [j EXCEPT !.req[r].res = code]
  ELSE [j EXCEPT !.alive = FALSE, !.req[r].again = TRUE]

\* db.run('ROLLBACK'); return res.status(code).json({ error })
Abort(j, r, i, code) == Send(Run(j, Stmt("ROLLBACK", r, i, <<>>)), r, code)

\* The request has no statement in flight or waiting: its handler is over.
InFlight(c, r) ==
  \/ \E st \in c.pending : st.r = r
  \/ \E k \in 1..Len(c.queue) : c.queue[k].call.r = r
Done(r) == r <= nreq /\ ~InFlight(conn, r)
Quiescent == \A r \in 1..nreq : Done(r)

NoEnd == [by |-> 0, how |-> "none", writers |-> {}]

\* The end of a step: the statement leaves the connection and waiting calls
\* start; or, after an uncaught exception, the process exits and SQLite rolls
\* the open transaction back.
Finish(stmt, s, j, end) ==
  IF j.alive
  THEN /\ alive' = TRUE
       /\ store' = s
       /\ conn' = Process([j.conn EXCEPT !.pending = @ \ {stmt}])
       /\ req' = j.req
       /\ lastEnd' = end
  ELSE /\ alive' = FALSE
       /\ store' = SqlRollback(s)
       /\ conn' = EmptyConn
       /\ req' = j.req
       /\ lastEnd' = end

JS == [conn |-> conn, req |-> req, alive |-> alive]

\* ------------------------------------------------------------- requests
\* A request's inputs (kind, items / oid, status), its response (res, 0: none
\* sent yet), the variables of its handler's closures, and history: stockErr,
\* a restock UPDATE of the request failed; pre, the store when the request
\* arrived; with, the requests being handled and not yet answered when it
\* arrived; solo, no other request was being handled while this one was;
\* again, the handler called res.json after the response had been sent; user,
\* req.user as the token gives it; body, req.body of a registration (the
\* password by its length).
NoBody == [username |-> <<>>, email |-> <<>>, password |-> 0]

NoReq(s) ==
  [kind |-> "none", items |-> <<>>, oid |-> 0, status |-> "none", qty |-> 0, res |-> 0,
   totalAmount |-> 0, processedItems |-> <<>>, itemsProcessed |-> 0,
   itemsInserted |-> 0, orderId |-> 0,
   prev |-> "none", nitems |-> 0, updated |-> 0,
   stockErr |-> FALSE, pre |-> s, solo |-> TRUE, with |-> {}, user |-> Customer,
   again |-> FALSE, body |-> NoBody]

\* Cart lines a client sends: every book with every quantity, a book id that
\* names no row, a quantity of 0 and a missing book reference (book_id 0).
Lines ==
  { [book_id |-> b, quantity |-> q] : b \in Books, q \in 1..MaxQty }
  \cup { [book_id |-> MissingBook, quantity |-> 1],
         [book_id |-> 1, quantity |-> 0],
         [book_id |-> 0, quantity |-> 1] }
Carts == UNION { [1..n -> Lines] : n \in 0..MaxLines }

\* The cart lines of the requests that are handled together with others.
SharedLines ==
  { [book_id |-> 1, quantity |-> q] : q \in 1..MaxQty }
  \cup { [book_id |-> 2, quantity |-> 1], [book_id |-> 1, quantity |-> 0] }
SharedCarts == UNION { [1..n -> SharedLines] : n \in 0..MaxLines }

\* What is kept of a request whose handler is over: its closures are garbage.
Forget(rec) ==
  [NoReq(rec.pre) EXCEPT !.kind = rec.kind, !.res = rec.res, !.orderId = rec.orderId,
                         !.oid = rec.oid, !.status = rec.status, !.qty = rec.qty,
                         !.solo = rec.solo, !.user = rec.user,
                         !.body = rec.body]

\* A request arrives: the earlier requests still being handled are no longer
\* alone, and the closures of the finished ones are gone.
Arrive(r, rec) ==
  [q \in ReqIds |->
     IF q = r THEN [rec EXCEPT !.pre = store, !.solo = Quiescent,
                               !.with = {x \in 1..nreq : InFlight(conn, x) /\ req[x].res = 0}]
     ELSE IF q > nreq THEN req[q]
     ELSE IF InFlight(conn, q) THEN [req[q] EXCEPT !.solo = FALSE]
     ELSE Forget(req[q])]

Init ==
  /\ alive = TRUE
  /\ \E d \in Db0 : store = [db |-> d, committed |-> d, inTxn |-> FALSE, writers |-> {}]
  /\ conn = EmptyConn
  /\ req = [r \in ReqIds |-> NoReq(store)]
  /\ nreq = 0
  /\ faults = 0
  /\ lastEnd = NoEnd

\* --------------------------------------------------- POST /api/orders
\* if (!book_id || !quantity || quantity <= 0)
InvalidItem(item) == item.book_id = 0 \/ item.quantity = 0 \/ item.quantity <= 0

\* items.forEach((item, index) => { ... }) in the callback of BEGIN: an invalid
\* line rolls back and answers 400, and the loop goes on with the next line;
\* a valid line issues its SELECT.  An exception ends the loop.
RECURSIVE ForEachItem(_, _, _)
ForEachItem(j, r, i) ==
  IF i > Len(j.req[r].items) \/ ~j.alive THEN j
  ELSE LET item == j.req[r].items[i] IN
       ForEachItem(IF InvalidItem(item) THEN Abort(j, r, i, 400)
                   ELSE Run(j, Stmt("P_GET", r, i, <<item.book_id, item.quantity>>)),
                   r, i + 1)

\* The handler up to db.run('BEGIN TRANSACTION', ...).
PlaceOrder(items, user) ==
  /\ alive /\ nreq < MaxReq
  /\ LET r == nreq + 1
         j0 == [JS EXCEPT !.req = Arrive(r, [NoReq(store) EXCEPT !.kind = "order", !.items = items,
                                              !.user = user])]
         j == IF Len(items) = 0 THEN Send(j0, r, 400)
              ELSE Run(j0, Stmt("P_BEGIN", r, 0, <<>>))
     IN /\ req' = j.req
        /\ conn' = j.conn
        /\ nreq' = r
  /\ UNCHANGED <<alive, store, faults, lastEnd>>

SubmitOrder == \E items \in SharedCarts : PlaceOrder(items, Customer)

\* BEGIN TRANSACTION and its callback.
ExecPBegin ==
  /\ alive
  /\ \E stmt \in conn.pending :
       /\ stmt.op = "P_BEGIN"
       /\ LET err == Rejects(store, stmt)
              s == IF err THEN store ELSE SqlBegin(store)
              j == IF err THEN Send(JS, stmt.r, 500) ELSE ForEachItem(JS, stmt.r, 1)
          IN Finish(stmt, s, j, lastEnd)
  /\ UNCHANGED <<nreq, faults>>

\* SELECT * FROM books WHERE id = ? and its callback: the stock check.
ExecPGet ==
  /\ alive
  /\ \E stmt \in conn.pending :
       /\ stmt.op = "P_GET"
       /\ LET r == stmt.r
              book_id == stmt.a[1]
              quantity == stmt.a[2]
              j == IF book_id \notin DOMAIN store.db.stock THEN Abort(JS, r, stmt.i, 404)
                   ELSE IF store.db.stock[book_id] < quantity THEN Abort(JS, r, stmt.i, 400)
                   ELSE Run(JS, Stmt("P_UPD", r, stmt.i,
                                     <<book_id, quantity, store.db.price[book_id]>>))
          IN Finish(stmt, store, j, lastEnd)
  /\ UNCHANGED <<nreq, faults>>

\* Variant: only a cashier is recorded as the employee of an order.
employeeIdCashierOnly(user) == IF user.role = "cashier" THEN user.userId ELSE Null

\* const employee_id = (role === 'cashier' || role === 'admin') ? userId : null
employee_id(user) ==
  IF user.role = "cashier" \/ user.role = "admin" THEN user.userId ELSE Null

\* createOrder(): INSERT INTO orders with the total computed so far.
createOrder(j, r) ==
  Run(j, Stmt("P_INSORD", r, 0, <<j.req[r].user.userId, employee_id(j.req[r].user),
                                  j.req[r].totalAmount, "pending">>))

\* UPDATE books SET stock_quantity = stock_quantity - ? and its callback.
ExecPUpd ==
  /\ alive
  /\ \E stmt \in conn.pending :
       /\ stmt.op = "P_UPD"
       /\ LET r == stmt.r
              err == Rejects(store, stmt)
              s == IF err THEN store ELSE SqlUpdateStock(store, stmt.a[1], -stmt.a[2], r)
              j1 == [JS EXCEPT
                       !.req[r].totalAmount = @ + stmt.a[3] * stmt.a[2],
                       !.req[r].processedItems =
                          Append(@, [book_id |-> stmt.a[1], quantity |-> stmt.a[2],
                                     price_at_purchase |-> stmt.a[3]]),
                       !.req[r].itemsProcessed = @ + 1]
              j == IF err THEN Abort(JS, r, stmt.i, 500)
                   ELSE IF j1.req[r].itemsProcessed = Len(j1.req[r].items) THEN createOrder(j1, r)
                   ELSE j1
          IN Finish(stmt, s, j, lastEnd)
  /\ UNCHANGED <<nreq, faults>>

\* processedItems.forEach(item => db.run('INSERT INTO order_items ...'))
RECURSIVE ForEachProcessed(_, _, _)
ForEachProcessed(j, r, k) ==
  IF k > Len(j.req[r].processedItems) THEN j
  ELSE LET item == j.req[r].processedItems[k] IN
       ForEachProcessed(Run(j, Stmt("P_INSITEM", r, k,
                                    <<j.req[r].orderId, item.book_id, item.quantity,
                                      item.price_at_purchase>>)),
                        r, k + 1)

\* INSERT INTO orders and its callback (orderId = this.lastID).
ExecPInsOrd ==
  /\ alive
  /\ \E stmt \in conn.pending :
       /\ stmt.op = "P_INSORD"
       /\ LET r == stmt.r
              s == SqlInsertOrder(store, stmt.a[1], stmt.a[2], stmt.a[3], stmt.a[4], r)
              j == ForEachProcessed([JS EXCEPT !.req[r].orderId = Len(s.db.orders)], r, 1)
          IN Finish(stmt, s, j, lastEnd)
  /\ UNCHANGED <<nreq, faults>>

\* INSERT INTO order_items and its callback.
ExecPInsItem ==
  /\ alive
  /\ \E stmt \in conn.pending :
       /\ stmt.op = "P_INSITEM"
       /\ LET r == stmt.r
              err == Rejects(store, stmt)
              s == IF err THEN store ELSE SqlInsertItem(store, stmt.a, r)
              j1 == [JS EXCEPT !.req[r].itemsInserted = @ + 1]
              j == IF err THEN Abort(JS, r, stmt.i, 500)
                   ELSE IF j1.req[r].itemsInserted = Len(j1.req[r].processedItems)
                        THEN Run(j1, Stmt("P_COMMIT", r, 0, <<>>))
                   ELSE j1
          IN Finish(stmt, s, j, lastEnd)
  /\ UNCHANGED <<nreq, faults>>

\* logAudit(...): INSERT INTO audit_log, with a callback that only logs.
logAudit(j, r) == Run(j, Stmt("AUDIT", r, 0, <<>>))

\* COMMIT and its callback: the 201 response.
ExecPCommit ==
  /\ alive
  /\ \E stmt \in conn.pending :
       /\ stmt.op = "P_COMMIT"
       /\ LET r == stmt.r
              err == Rejects(store, stmt)
              s == IF err THEN store ELSE SqlCommit(store)
              j == IF err THEN Abort(JS, r, 0, 500) ELSE Send(logAudit(JS, r), r, 201)
              end == IF err THEN lastEnd
                     ELSE [by |-> r, how |-> "COMMIT", writers |-> store.writers]
          IN Finish(stmt, s, j, end)
  /\ UNCHANGED <<nreq, faults>>

\* db.run('ROLLBACK'), issued without a callback: when no transaction is
\* active the statement fails and its 'error' event has no listener.
ExecRollback ==
  /\ alive
  /\ \E stmt \in conn.pending :
       /\ stmt.op = "ROLLBACK"
       /\ LET err == Rejects(store, stmt)
              s == IF err THEN store ELSE SqlRollback(store)
              j == IF err THEN [JS EXCEPT !.alive = FALSE] ELSE JS
              end == IF err THEN lastEnd
                     ELSE [by |-> stmt.r, how |-> "ROLLBACK", writers |-> store.writers]
          IN Finish(stmt, s, j, end)
  /\ UNCHANGED <<nreq, faults>>

\* The audit INSERT (table audit_log is not modelled) and its callback.
ExecAudit ==
  /\ alive
  /\ \E stmt \in conn.pending :
       /\ stmt.op = "AUDIT"
       /\ Finish(stmt, store, JS, lastEnd)
  /\ UNCHANGED <<nreq, faults>>

\* ------------------------------------------- PUT /api/orders/:id/status
OrderIds == 1..2       \* order ids a client names

\* Variants: a handler that never restocks, one that restocks on every
\* transition to 'cancelled', and one that restocks on every transition away
\* from a status other than 'cancelled'.
restockNever(status, orderStatus) == FALSE
restockOnTarget(status, orderStatus) == status = "cancelled"
restockOnPrevious(status, orderStatus) == orderStatus # "cancelled"

\* const shouldRestock = status === 'cancelled' && order.status !== 'cancelled'
shouldRestock(status, orderStatus) == status = "cancelled" /\ orderStatus # "cancelled"

\* checkRole(['admin', 'cashier']) and the handler up to
\* db.serialize(() => db.get('SELECT id, status ...')).
HandleOrderStatus(user) ==
  /\ alive
  /\ \E oid \in OrderIds, status \in Targets :
       LET r == nreq + 1
           j0 == [JS EXCEPT !.req = Arrive(r, [NoReq(store) EXCEPT !.kind = "status",
                                                !.oid = oid, !.status = status,
                                                !.user = user])]
           j == IF ~checkRole({"admin", "cashier"}, user) THEN Send(j0, r, 403)
                ELSE IF status \notin validStatuses THEN Send(j0, r, 400)
                ELSE [j0 EXCEPT !.conn = Schedule(@, Stmt("S_GET", r, 0, <<>>), TRUE)]
       IN /\ req' = j.req
          /\ conn' = j.conn
          /\ nreq' = r
  /\ UNCHANGED <<alive, store, faults, lastEnd>>

PutOrderStatus(user) == nreq < MaxReq /\ HandleOrderStatus(user)

SubmitStatus == PutOrderStatus(Admin)

\* SELECT id, status FROM orders WHERE id = ? and its callback, which issues
\* BEGIN TRANSACTION (no callback) and the UPDATE of the status together.
ExecSGet ==
  /\ alive
  /\ \E stmt \in conn.pending :
       /\ stmt.op = "S_GET"
       /\ LET r == stmt.r
              oid == req[r].oid
              j == IF oid \notin 1..Len(store.db.orders) THEN Send(JS, r, 404)
                   ELSE Run(Run([JS EXCEPT !.req[r].prev = store.db.orders[oid].status],
                                Stmt("S_BEGIN", r, 0, <<>>)),
                            Stmt("S_UPD", r, 0, <<oid, req[r].status>>))
          IN Finish(stmt, store, j, lastEnd)
  /\ UNCHANGED <<nreq, faults>>

\* db.run('BEGIN TRANSACTION'), issued without a callback.
ExecSBegin ==
  /\ alive
  /\ \E stmt \in conn.pending :
       /\ stmt.op = "S_BEGIN"
       /\ LET err == Rejects(store, stmt)
              s == IF err THEN store ELSE SqlBegin(store)
              j == IF err THEN [JS EXCEPT !.alive = FALSE] ELSE JS
          IN Finish(stmt, s, j, lastEnd)
  /\ UNCHANGED <<nreq, faults>>

\* UPDATE orders SET status = ? and its callback.
ExecSUpd ==
  /\ alive
  /\ \E stmt \in conn.pending :
       /\ stmt.op = "S_UPD"
       /\ LET r == stmt.r
              updateErr == Rejects(store, stmt)
              s == IF updateErr THEN store ELSE SqlUpdateStatus(store, stmt.a[1], stmt.a[2], r)
              j == IF updateErr THEN Abort(JS, r, 0, 500)
                   ELSE IF shouldRestock(req[r].status, req[r].prev)
                   THEN Run(JS, Stmt("S_ITEMS", r, 0, <<>>))
                   ELSE Run(JS, Stmt("S_COMMIT", r, 0, <<>>))
          IN Finish(stmt, s, j, lastEnd)
  /\ UNCHANGED <<nreq, faults>>

\* SELECT book_id, quantity FROM order_items WHERE order_id = ?
OrderItems(d, oid) == SelectSeq(d.items, LAMBDA it : it.order_id = oid)

\* items.forEach(item => db.run('UPDATE books SET stock_quantity = ... + ?'))
RECURSIVE ForEachRestock(_, _, _, _)
ForEachRestock(j, r, items, k) ==
  IF k > Len(items) THEN j
  ELSE ForEachRestock(Run(j, Stmt("S_RESTOCK", r, k, <<items[k].book_id, items[k].quantity>>)),
                      r, items, k + 1)

\* The SELECT of the order's items and its callback.
ExecSItems ==
  /\ alive
  /\ \E stmt \in conn.pending :
       /\ stmt.op = "S_ITEMS"
       /\ LET r == stmt.r
              items == OrderItems(store.db, req[r].oid)
              j == IF Len(items) = 0 THEN Run(JS, Stmt("S_COMMIT", r, 0, <<>>))
                   ELSE ForEachRestock([JS EXCEPT !.req[r].nitems = Len(items)], r, items, 1)
          IN Finish(stmt, store, j, lastEnd)
  /\ UNCHANGED <<nreq, faults>>

\* One restock UPDATE and its callback.
ExecSRestock ==
  /\ alive
  /\ \E stmt \in conn.pending :
       /\ stmt.op = "S_RESTOCK"
       /\ LET r == stmt.r
              s == SqlUpdateStock(store, stmt.a[1], stmt.a[2], r)
              j1 == [JS EXCEPT !.req[r].updated = @ + 1]
              j == IF j1.req[r].updated = j1.req[r].nitems
                   THEN Run(j1, Stmt("S_COMMIT", r, 0, <<>>))
                   ELSE j1
          IN Finish(stmt, s, j, lastEnd)
  /\ UNCHANGED <<nreq, faults>>

\* One restock UPDATE that the storage layer fails (stockErr): the callback
\* rolls back and answers 500.
ExecSRestockFails ==
  /\ alive /\ faults < MaxFaults
  /\ \E stmt \in conn.pending :
       /\ stmt.op = "S_RESTOCK"
       /\ Finish(stmt, store,
                 Abort([JS EXCEPT !.req[stmt.r].stockErr = TRUE], stmt.r, stmt.i, 500),
                 lastEnd)
  /\ faults' = faults + 1
  /\ UNCHANGED nreq

\* COMMIT and its callback: the success acknowledgement.
ExecSCommit ==
  /\ alive
  /\ \E stmt \in conn.pending :
       /\ stmt.op = "S_COMMIT"
       /\ LET r == stmt.r
              err == Rejects(store, stmt)
              s == IF err THEN store ELSE SqlCommit(store)
              j == IF err THEN Abort(JS, r, 0, 500) ELSE Send(JS, r, 200)
              end == IF err THEN lastEnd
                     ELSE [by |-> r, how |-> "COMMIT", writers |-> store.writers]
          IN Finish(stmt, s, j, end)
  /\ UNCHANGED <<nreq, faults>>

\* ------------------------------------ POST /api/books, PUT /api/books/:id
\* The handler of POST /api/books: the required fields, the sign checks, and
\* db.run(INSERT INTO books ...) with stock_quantity || 0.
SubmitBookCreate ==
  /\ alive /\ nreq < MaxReq
  /\ \E price \in {0, 5}, stock_quantity \in {-1, 1} :
       LET r == nreq + 1
           j0 == [JS EXCEPT !.req = Arrive(r, [NoReq(store) EXCEPT !.kind = "bookCreate",
                                                !.qty = stock_quantity])]
           j == IF price = 0 THEN Send(j0, r, 400)
                ELSE IF price < 0 \/ (stock_quantity # 0 /\ stock_quantity < 0)
                     THEN Send(j0, r, 400)
                ELSE Run(j0, Stmt("B_INS", r, 0, <<price, stock_quantity>>))
       IN /\ req' = j.req
          /\ conn' = j.conn
          /\ nreq' = r
  /\ UNCHANGED <<alive, store, faults, lastEnd>>

\* INSERT INTO books and its callback.
ExecBIns ==
  /\ alive
  /\ \E stmt \in conn.pending :
       /\ stmt.op = "B_INS"
       /\ LET r == stmt.r
              err == Rejects(store, stmt)
              s == IF err THEN store ELSE SqlInsertBook(store, stmt.a[1], stmt.a[2], r)
              j == IF err THEN Send(JS, r, 500) ELSE Send(JS, r, 201)
          IN Finish(stmt, s, j, lastEnd)
  /\ UNCHANGED <<nreq, faults>>

\* The handler of PUT /api/books/:id: db.run(UPDATE books SET ...) with the
\* body's price and stock_quantity as they came.
SubmitBookUpdate ==
  /\ alive /\ nreq < MaxReq
  /\ \E id \in {1, MissingBook}, price \in {12}, stock_quantity \in {-1, 3} :
       LET r == nreq + 1
           j0 == [JS EXCEPT !.req = Arrive(r, [NoReq(store) EXCEPT !.kind = "bookUpdate",
                                                !.oid = id, !.qty = stock_quantity])]
           j == Run(j0, Stmt("B_UPD", r, 0, <<id, price, stock_quantity>>))
       IN /\ req' = j.req
          /\ conn' = j.conn
          /\ nreq' = r
  /\ UNCHANGED <<alive, store, faults, lastEnd>>

\* UPDATE books and its callback (this.changes === 0: book not found).
ExecBUpd ==
  /\ alive
  /\ \E stmt \in conn.pending :
       /\ stmt.op = "B_UPD"
       /\ LET r == stmt.r
              err == Rejects(store, stmt)
              s == IF err THEN store
                   ELSE SqlUpdateBook(store, stmt.a[1], stmt.a[2], stmt.a[3], r)
              j == IF err THEN Send(JS, r, 500)
                   ELSE IF stmt.a[1] \notin DOMAIN store.db.stock THEN Send(JS, r, 404)
                   ELSE Send(logAudit(JS, r), r, 200)
          IN Finish(stmt, s, j, lastEnd)
  /\ UNCHANGED <<nreq, faults>>

\* The handler of DELETE /api/books/:id.
SubmitBookDelete ==
  /\ alive /\ nreq < MaxReq
  /\ \E id \in {1, MissingBook} :
       LET r == nreq + 1
           j0 == [JS EXCEPT !.req = Arrive(r, [NoReq(store) EXCEPT !.kind = "bookDelete",
                                                !.oid = id])]
           j == Run(j0, Stmt("B_DEL", r, 0, <<id>>))
       IN /\ req' = j.req
          /\ conn' = j.conn
          /\ nreq' = r
  /\ UNCHANGED <<alive, store, faults, lastEnd>>

\* DELETE FROM books and its callback (this.changes === 0: book not found).
ExecBDel ==
  /\ alive
  /\ \E stmt \in conn.pending :
       /\ stmt.op = "B_DEL"
       /\ LET r == stmt.r
              err == Rejects(store, stmt)
              s == IF err THEN store ELSE SqlDeleteBook(store, stmt.a[1], r)
              j == IF err THEN Send(JS, r, 500)
                   ELSE IF stmt.a[1] \notin DOMAIN store.db.stock THEN Send(JS, r, 404)
                   ELSE Send(logAudit(JS, r), r, 200)
          IN Finish(stmt, s, j, lastEnd)
  /\ UNCHANGED <<nreq, faults>>

\* ------------------------------------------------- POST /api/auth/register
\* Bodies a client sends: a missing field, an email with no '@', an email
\* wrapped in angle brackets, a short password.
RegisterBodies ==
  [username : {<<>>, <<"johndoe">>, <<"ann">>, <<"bob">>},
   email : {<<>>, John, Ann, <<"<">> \o Ann \o <<">">>, <<"ann", ".", "example", ".", "com">>},
   password : {0, 5, 8}]

\* The handler of POST /api/auth/register up to db.run(INSERT INTO users).
SubmitRegister ==
  /\ alive /\ nreq < MaxReq
  /\ \E body \in RegisterBodies, iv \in IVs :
       LET r == nreq + 1
           j0 == [JS EXCEPT !.req = Arrive(r, [NoReq(store) EXCEPT !.kind = "register",
                                                !.body = body])]
           cleanUsername == sanitizeInput(body.username)
           cleanEmail == sanitizeInput(body.email)
           j == IF body.username = <<>> \/ body.email = <<>> \/ body.password = 0
                THEN Send(j0, r, 400)
                ELSE IF ~isValidEmail(cleanEmail) THEN Send(j0, r, 400)
                ELSE IF body.password < 6 THEN Send(j0, r, 400)
                ELSE Run(j0, Stmt("U_INS", r, 0,
                                  <<cleanUsername, encryptData(cleanEmail, iv)>>))
       IN /\ req' = j.req
          /\ conn' = j.conn
          /\ nreq' = r
  /\ UNCHANGED <<alive, store, faults, lastEnd>>

\* INSERT INTO users and its callback: 409 on a UNIQUE violation.
ExecUIns ==
  /\ alive
  /\ \E stmt \in conn.pending :
       /\ stmt.op = "U_INS"
       /\ LET r == stmt.r
              err == Rejects(store, stmt)
              s == IF err THEN store ELSE SqlInsertUser(store, stmt.a[1], stmt.a[2], r)
              j == IF err THEN Send(JS, r, 409) ELSE Send(JS, r, 201)
          IN Finish(stmt, s, j, lastEnd)
  /\ UNCHANGED <<nreq, faults>>

\* ------------------ POST /api/supplier-orders, PUT /api/supplier-orders/:id/status
\* The handler of POST /api/supplier-orders: only a missing (or zero) book,
\* supplier or quantity is refused.
SubmitSupplierOrder ==
  /\ alive /\ nreq < MaxReq
  /\ \E book_id \in {1}, quantity \in {-3, 0, 2} :
       LET r == nreq + 1
           j0 == [JS EXCEPT !.req = Arrive(r, [NoReq(store) EXCEPT !.kind = "supplierOrder",
                                                !.oid = book_id, !.qty = quantity])]
           j == IF book_id = 0 \/ quantity = 0 THEN Send(j0, r, 400)
                ELSE Run(j0, Stmt("SO_INS", r, 0, <<book_id, quantity>>))
       IN /\ req' = j.req
          /\ conn' = j.conn
          /\ nreq' = r
  /\ UNCHANGED <<alive, store, faults, lastEnd>>

\* INSERT INTO supplier_orders and its callback.
ExecSoIns ==
  /\ alive
  /\ \E stmt \in conn.pending :
       /\ stmt.op = "SO_INS"
       /\ LET r == stmt.r
              err == Rejects(store, stmt)
              s == IF err THEN store
                   ELSE SqlInsertSupplierOrder(store, stmt.a[1], stmt.a[2], r)
              j == IF err THEN Send(JS, r, 500) ELSE Send(JS, r, 201)
          IN Finish(stmt, s, j, lastEnd)
  /\ UNCHANGED <<nreq, faults>>

\* requireAdmin and the handler of PUT /api/supplier-orders/:id/status up to
\* db.get('SELECT * FROM supplier_orders WHERE id = ?').
HandleSupplierStatus(user) ==
  /\ alive
  /\ \E id \in 1..(Len(Supplier0) + 1), status \in {"Received", "Cancelled", "Lost"} :
       LET r == nreq + 1
           j0 == [JS EXCEPT !.req = Arrive(r, [NoReq(store) EXCEPT !.kind = "supplierStatus",
                                                !.oid = id, !.status = status,
                                                !.user = user])]
           j == IF ~requireAdmin(user) THEN Send(j0, r, 403)
                ELSE IF status \notin {"Pending", "Shipped", "Received", "Cancelled"}
                THEN Send(j0, r, 400)
                ELSE Run(j0, Stmt("SS_GET", r, 0, <<id, status>>))
       IN /\ req' = j.req
          /\ conn' = j.conn
          /\ nreq' = r
  /\ UNCHANGED <<alive, store, faults, lastEnd>>

PutSupplierStatus(user) == nreq < MaxReq /\ HandleSupplierStatus(user)

SubmitSupplierStatus == PutSupplierStatus(Admin)

\* SELECT * FROM supplier_orders and its callback, which captures the row
\* (order) and issues the UPDATE of the status.
ExecSsGet ==
  /\ alive
  /\ \E stmt \in conn.pending :
       /\ stmt.op = "SS_GET"
       /\ LET r == stmt.r
              id == stmt.a[1]
              j == IF id \notin 1..Len(store.db.supplier_orders) THEN Send(JS, r, 404)
                   ELSE LET order == store.db.supplier_orders[id]
                        IN Run(JS, Stmt("SS_UPD", r, 0, <<id, stmt.a[2], order.book_id,
                                                          order.quantity, order.status>>))
          IN Finish(stmt, store, j, lastEnd)
  /\ UNCHANGED <<nreq, faults>>

\* Variant: a handler that credits the stock on every update to 'Received'.
creditOnTarget(status, orderStatus) == status = "Received"

\* if (status === 'Received' && order.status !== 'Received')
shouldCredit(status, orderStatus) == status = "Received" /\ orderStatus # "Received"

\* UPDATE supplier_orders SET status = ? and its callback: on 'Received' of an
\* order not yet received the stock credit is issued; then the audit entry and
\* the response.
ExecSsUpd ==
  /\ alive
  /\ \E stmt \in conn.pending :
       /\ stmt.op = "SS_UPD"
       /\ LET r == stmt.r
              err == Rejects(store, stmt)
              s == IF err THEN store
                   ELSE SqlUpdateSupplierStatus(store, stmt.a[1], stmt.a[2], r)
              j1 == IF shouldCredit(stmt.a[2], stmt.a[5])
                    THEN Run(JS, Stmt("SS_STOCK", r, 0, <<stmt.a[3], stmt.a[4]>>))
                    ELSE JS
              j == IF err THEN Send(JS, r, 500)
                   ELSE Send(logAudit(j1, r), r, 200)
          IN Finish(stmt, s, j, lastEnd)
  /\ UNCHANGED <<nreq, faults>>

\* UPDATE books SET stock_quantity = stock_quantity + ? (the stock credit) and
\* its callback: an error is only logged; then the audit entry.
ExecSsStock ==
  /\ alive
  /\ \E stmt \in conn.pending :
       /\ stmt.op = "SS_STOCK"
       /\ LET r == stmt.r
              err == Rejects(store, stmt)
              s == IF err THEN store ELSE SqlUpdateStock(store, stmt.a[1], stmt.a[2], r)
          IN Finish(stmt, s, logAudit(JS, r), lastEnd)
  /\ UNCHANGED <<nreq, faults>>

\* ------------------------------------------------ POST /api/process-payment
\* Request bodies: the payment method ("" when missing) and the length of the
\* card number (0 when the card details are missing).
PaymentBodies ==
  { [payment_method |-> "", card |-> 0], [payment_method |-> "paypal", card |-> 0],
    [payment_method |-> "credit_card", card |-> 0],
    [payment_method |-> "credit_card", card |-> 12],
    [payment_method |-> "credit_card", card |-> 16] }

\* if (!order_id || !payment_method) ...; for a credit card, the card details
\* must be there and the card number have 13 to 19 characters.
InvalidPayment(order_id, body) ==
  \/ order_id = 0 \/ body.payment_method = ""
  \/ /\ body.payment_method = "credit_card"
     /\ (body.card = 0 \/ body.card < 13 \/ body.card > 19)

\* The handler up to db.run(`UPDATE orders SET status = 'Confirmed' WHERE id = ?`).
SubmitPayment ==
  /\ alive /\ nreq < MaxReq
  /\ \E order_id \in {0} \cup OrderIds, body \in PaymentBodies :
       LET r == nreq + 1
           j0 == [JS EXCEPT !.req = Arrive(r, [NoReq(store) EXCEPT !.kind = "payment",
                                                !.oid = order_id,
                                                !.status = body.payment_method,
                                                !.qty = body.card])]
           j == IF InvalidPayment(order_id, body) THEN Send(j0, r, 400)
                ELSE Run(j0, Stmt("PAY_UPD", r, 0, <<order_id, "Confirmed">>))
       IN /\ req' = j.req
          /\ conn' = j.conn
          /\ nreq' = r
  /\ UNCHANGED <<alive, store, faults, lastEnd>>

\* UPDATE orders SET status = 'Confirmed' and its callback, which issues the
\* SELECT of the order's details.
ExecPayUpd ==
  /\ alive
  /\ \E stmt \in conn.pending :
       /\ stmt.op = "PAY_UPD"
       /\ LET r == stmt.r
              err == Rejects(store, stmt)
              s == IF err THEN store ELSE SqlUpdateStatus(store, stmt.a[1], stmt.a[2], r)
              j == IF err THEN Send(JS, r, 500)
                   ELSE Run(JS, Stmt("PAY_GET", r, 0, <<stmt.a[1]>>))
          IN Finish(stmt, s, j, lastEnd)
  /\ UNCHANGED <<nreq, faults>>

\* SELECT ... FROM orders o JOIN users u ... JOIN order_items oi ... JOIN books b
\* ... WHERE o.id = ? and its callback: no row (500) unless the order exists
\* and has an item of an existing book.
ExecPayGet ==
  /\ alive
  /\ \E stmt \in conn.pending :
       /\ stmt.op = "PAY_GET"
       /\ LET r == stmt.r
              order == /\ stmt.a[1] \in 1..Len(store.db.orders)
                       /\ \E k \in DOMAIN store.db.items :
                            /\ store.db.items[k].order_id = stmt.a[1]
                            /\ store.db.items[k].book_id \in DOMAIN store.db.stock
              j == IF ~order THEN Send(JS, r, 500) ELSE Send(JS, r, 200)
          IN Finish(stmt, store, j, lastEnd)
  /\ UNCHANGED <<nreq, faults>>

\* ------------------------------------------------------------ behaviours
Next ==
  \/ SubmitOrder
  \/ ExecPBegin
  \/ ExecPGet
  \/ ExecPUpd
  \/ ExecPInsOrd
  \/ ExecPInsItem
  \/ ExecPCommit
  \/ ExecRollback
  \/ ExecAudit
  \/ SubmitStatus
  \/ ExecSGet
  \/ ExecSBegin
  \/ ExecSUpd
  \/ ExecSItems
  \/ ExecSRestock
  \/ ExecSRestockFails
  \/ ExecSCommit
  \/ SubmitBookCreate
  \/ ExecBIns
  \/ SubmitBookUpdate
  \/ ExecBUpd
  \/ SubmitBookDelete
  \/ ExecBDel
  \/ SubmitSupplierOrder
  \/ ExecSoIns
  \/ SubmitSupplierStatus
  \/ ExecSsGet
  \/ ExecSsUpd
  \/ ExecSsStock
  \/ SubmitPayment
  \/ ExecPayUpd
  \/ ExecPayGet

Spec == Init /\ [][Next]_vars

\* The server receiving order placements only, possibly several at a time.
NextOrders ==
  \/ SubmitOrder
  \/ ExecPBegin
  \/ ExecPGet
  \/ ExecPUpd
  \/ ExecPInsOrd
  \/ ExecPInsItem
  \/ ExecPCommit
  \/ ExecRollback
  \/ ExecAudit

SpecOrders == Init /\ [][NextOrders]_vars

\* The same, with the thread pool of node-sqlite3 at work: as long as a
\* statement can be executed, one eventually is.
ExecOrders ==
  \/ ExecPBegin
  \/ ExecPGet
  \/ ExecPUpd
  \/ ExecPInsOrd
  \/ ExecPInsItem
  \/ ExecPCommit
  \/ ExecRollback
  \/ ExecAudit

SpecOrdersLive == SpecOrders /\ WF_vars(ExecOrders)

\* The same server receiving a request only when it is handling no other.
SubmitOrderAlone == Quiescent /\ \E items \in Carts : PlaceOrder(items, Customer)
SubmitStatusAlone == Quiescent /\ SubmitStatus

NextSerial ==
  \/ SubmitOrderAlone
  \/ ExecPBegin
  \/ ExecPGet
  \/ ExecPUpd
  \/ ExecPInsOrd
  \/ ExecPInsItem
  \/ ExecPCommit
  \/ ExecRollback
  \/ ExecAudit
  \/ SubmitStatusAlone
  \/ ExecSGet
  \/ ExecSBegin
  \/ ExecSUpd
  \/ ExecSItems
  \/ ExecSRestock
  \/ ExecSRestockFails
  \/ ExecSCommit

SpecSerial == Init /\ [][NextSerial]_vars

\* Requests one at a time, with the thread pool at work.
ExecSerial ==
  \/ ExecPBegin
  \/ ExecPGet
  \/ ExecPUpd
  \/ ExecPInsOrd
  \/ ExecPInsItem
  \/ ExecPCommit
  \/ ExecRollback
  \/ ExecAudit
  \/ ExecSGet
  \/ ExecSBegin
  \/ ExecSUpd
  \/ ExecSItems
  \/ ExecSRestock
  \/ ExecSRestockFails
  \/ ExecSCommit

SpecSerialLive == SpecSerial /\ WF_vars(ExecSerial)

\* Placements by every kind of user, one at a time.
SubmitOrderAs == Quiescent /\ \E items \in SharedCarts, user \in Users : PlaceOrder(items, user)

NextActors ==
  \/ SubmitOrderAs
  \/ ExecPBegin
  \/ ExecPGet
  \/ ExecPUpd
  \/ ExecPInsOrd
  \/ ExecPInsItem
  \/ ExecPCommit
  \/ ExecRollback
  \/ ExecAudit

SpecActors == Init /\ [][NextActors]_vars

\* Status transitions and supplier-order status updates by users of every
\* role, one at a time.
SubmitStatusAs == Quiescent /\ \E user \in Users : PutOrderStatus(user)
SubmitSupplierStatusAs == Quiescent /\ \E user \in Users : PutSupplierStatus(user)

NextRoles ==
  \/ SubmitStatusAs
  \/ ExecSGet
  \/ ExecSBegin
  \/ ExecSUpd
  \/ ExecSItems
  \/ ExecSRestock
  \/ ExecSRestockFails
  \/ ExecSCommit
  \/ SubmitSupplierStatusAs
  \/ ExecSsGet
  \/ ExecSsUpd
  \/ ExecSsStock
  \/ ExecRollback
  \/ ExecAudit

SpecRoles == Init /\ [][NextRoles]_vars

\* Sequences of supplier-order status updates by the admin, one at a time.
SubmitSupplierStatusSeq == Quiescent /\ nreq < MaxSeq /\ HandleSupplierStatus(Admin)

NextSupplierSeq ==
  \/ SubmitSupplierStatusSeq
  \/ ExecSsGet
  \/ ExecSsUpd
  \/ ExecSsStock
  \/ ExecAudit

SpecSupplierSeq == Init /\ [][NextSupplierSeq]_vars

\* Sequences of order status transitions by the admin, one at a time.
SubmitStatusSeq == Quiescent /\ nreq < MaxSeq /\ HandleOrderStatus(Admin)

NextStatusSeq ==
  \/ SubmitStatusSeq
  \/ ExecSGet
  \/ ExecSBegin
  \/ ExecSUpd
  \/ ExecSItems
  \/ ExecSRestock
  \/ ExecSRestockFails
  \/ ExecSCommit
  \/ ExecRollback

SpecStatusSeq == Init /\ [][NextStatusSeq]_vars

\* Cancellations by the admin, up to MaxSeq of them in flight at the same time.
SubmitCancel ==
  /\ nreq < MaxSeq
  /\ HandleOrderStatus(Admin)
  /\ req'[nreq'].status = "cancelled"

NextCancel ==
  \/ SubmitCancel
  \/ ExecSGet
  \/ ExecSBegin
  \/ ExecSUpd
  \/ ExecSItems
  \/ ExecSRestock
  \/ ExecSRestockFails
  \/ ExecSCommit
  \/ ExecRollback

SpecCancel == Init /\ [][NextCancel]_vars

\* Registrations, several at a time.
NextRegister ==
  \/ SubmitRegister
  \/ ExecUIns

SpecRegister == Init /\ [][NextRegister]_vars

\* The server receiving any of the requests, one at a time.
SubmitBookCreateAlone == Quiescent /\ SubmitBookCreate
SubmitBookUpdateAlone == Quiescent /\ SubmitBookUpdate
SubmitBookDeleteAlone == Quiescent /\ SubmitBookDelete
SubmitSupplierOrderAlone == Quiescent /\ SubmitSupplierOrder
SubmitSupplierStatusAlone == Quiescent /\ SubmitSupplierStatus
SubmitPaymentAlone == Quiescent /\ SubmitPayment

NextSerialAll ==
  \/ NextSerial
  \/ SubmitBookCreateAlone
  \/ ExecBIns
  \/ SubmitBookUpdateAlone
  \/ ExecBUpd
  \/ SubmitBookDeleteAlone
  \/ ExecBDel
  \/ SubmitSupplierOrderAlone
  \/ ExecSoIns
  \/ SubmitSupplierStatusAlone
  \/ ExecSsGet
  \/ ExecSsUpd
  \/ ExecSsStock
  \/ SubmitPaymentAlone
  \/ ExecPayUpd
  \/ ExecPayGet

SpecSerialAll == Init /\ [][NextSerialAll]_vars

\* ---------------------------------------------------------------- claims
\* Total quantity of the lines (or order_items rows) that name book b.
RECURSIVE QtyOf(_, _)
QtyOf(items, b) ==
  IF items = <<>> THEN 0
  ELSE (IF Head(items).book_id = b THEN Head(items).quantity ELSE 0) + QtyOf(Tail(items), b)

\* r is the last request received, it was handled alone, and its handler is over.
Settled(r) == r = nreq /\ r >= 1 /\ req[r].solo /\ Done(r)

\* Line i of the cart fails against the stock the request found.
LineFails(rec, i) ==
  LET item == rec.items[i] IN
  \/ InvalidItem(item)
  \/ item.book_id \notin DOMAIN rec.pre.db.stock
  \/ item.quantity > rec.pre.db.stock[item.book_id]

\* C1: order placement is all-or-nothing on failure: when a placement handled
\* alone fails at a line (missing book, non-positive quantity, quantity above
\* stock), then once its handler is over every book's stock is what it was
\* before the request and no orders / order_items row was added.
C1_AllOrNothing ==
  \A r \in ReqIds :
    ( /\ Settled(r) /\ req[r].kind = "order"
      /\ \E i \in 1..Len(req[r].items) : LineFails(req[r], i) )
    => /\ store.db.stock = req[r].pre.db.stock
       /\ store.db.orders = req[r].pre.db.orders
       /\ store.db.items = req[r].pre.db.items

\* C2: no overselling under concurrency: two placements being handled at the
\* same time that name the same book with quantities whose sum exceeds the
\* book's stock do not both succeed (201), and at most one order gets committed.
C2_NoOversell ==
  \A r1, r2 \in ReqIds :
    ( /\ r2 = nreq /\ r1 \in req[r2].with
      /\ req[r1].kind = "order" /\ req[r2].kind = "order"
      /\ \E b \in Books :
           /\ QtyOf(req[r1].items, b) + QtyOf(req[r2].items, b)
                > req[r2].pre.committed.stock[b]
           /\ QtyOf(req[r1].items, b) > 0 /\ QtyOf(req[r2].items, b) > 0 )
    => /\ ~(req[r1].res = 201 /\ req[r2].res = 201)
       /\ Len(store.committed.orders) <= Len(req[r2].pre.committed.orders) + 1

C2_Witness ==
  \E r1, r2 \in ReqIds :
    /\ r2 = nreq /\ r1 \in req[r2].with /\ Quiescent /\ alive
    /\ req[r1].kind = "order" /\ req[r2].kind = "order"
    /\ \E b \in Books :
         /\ QtyOf(req[r1].items, b) + QtyOf(req[r2].items, b) > req[r2].pre.committed.stock[b]
         /\ QtyOf(req[r1].items, b) > 0 /\ QtyOf(req[r2].items, b) > 0
    /\ 201 \in {req[r1].res, req[r2].res}

\* Request r is a placement whose cart names book b, or a status transition of
\* an order with an item of book b.
Touches(r, b) ==
  \/ req[r].kind = "order" /\ QtyOf(req[r].items, b) > 0
  \/ /\ req[r].kind = "status"
     /\ \E k \in 1..Len(store.db.items) :
          store.db.items[k].order_id = req[r].oid /\ store.db.items[k].book_id = b

\* C4: isolation of the multi-step workflows: when a placement and another
\* placement or status transition touching the same book are handled together,
\* a COMMIT or ROLLBACK issued by one of them never ends a transaction that
\* holds writes of the other (making them permanent, or undoing them).
C4_Isolation ==
  \A w \in lastEnd.writers \ {lastEnd.by} :
    ~ ( /\ {req[w].kind, req[lastEnd.by].kind} \in {{"order"}, {"order", "status"}}
        /\ \E b \in Books : Touches(w, b) /\ Touches(lastEnd.by, b) )

\* C5: a successful placement (201) handled alone decreases each book's stock
\* by the sum of the quantities its cart asks for that book, adds exactly one
\* orders row and exactly one order_items row per cart line, with that line's
\* book and quantity, and all of it is committed.
NewItems(r) == SubSeq(store.db.items, Len(req[r].pre.db.items) + 1, Len(store.db.items))
SameLine(row, line) == row.book_id = line.book_id /\ row.quantity = line.quantity
C5_SuccessEffects ==
  \A r \in ReqIds :
    (Settled(r) /\ req[r].kind = "order" /\ req[r].res = 201)
    => /\ \A b \in Books :
            store.db.stock[b] = req[r].pre.db.stock[b] - QtyOf(req[r].items, b)
       /\ Len(store.db.orders) = Len(req[r].pre.db.orders) + 1
       /\ SubSeq(store.db.orders, 1, Len(req[r].pre.db.orders)) = req[r].pre.db.orders
       /\ Len(store.db.items) = Len(req[r].pre.db.items) + Len(req[r].items)
       /\ SubSeq(store.db.items, 1, Len(req[r].pre.db.items)) = req[r].pre.db.items
       /\ \A k \in 1..Len(NewItems(r)) : NewItems(r)[k].order_id = Len(store.db.orders)
       /\ \A i \in 1..Len(req[r].items) :
            Cardinality({k \in 1..Len(NewItems(r)) : SameLine(NewItems(r)[k], req[r].items[i])})
              = Cardinality({k \in 1..Len(req[r].items) : req[r].items[k] = req[r].items[i]})
       /\ store.committed = store.db

C5_Witness ==
  \E r \in ReqIds :
    /\ Settled(r) /\ req[r].kind = "order" /\ req[r].res = 201
    /\ Len(req[r].items) = 2 /\ req[r].items[1] # req[r].items[2]
    /\ \E i \in 1..2 : req[r].items[i].quantity = 2

StatusSettled(r) == Settled(r) /\ req[r].kind = "status"

\* The order the status request names existed when the request arrived.
Known(r) == req[r].oid \in 1..Len(req[r].pre.db.orders)

\* C6: round trip of place then cancel: when a placement succeeds (201) and the
\* next request cancels that order (200), nothing else happening in between,
\* every book's stock equals its value before the placement.
C6_PlaceThenCancel ==
  \A p, s \in ReqIds :
    ( /\ s = p + 1 /\ StatusSettled(s) /\ alive
      /\ req[p].kind = "order" /\ req[p].solo /\ req[p].res = 201
      /\ req[s].oid = req[p].orderId /\ req[s].status = "cancelled" /\ req[s].res = 200 )
    => /\ store.db.stock = req[p].pre.db.stock
       /\ store.committed.stock = req[p].pre.db.stock

C6_Witness ==
  \E p, s \in ReqIds :
    /\ s = p + 1 /\ StatusSettled(s) /\ alive
    /\ req[p].kind = "order" /\ req[p].solo /\ req[p].res = 201
    /\ req[s].oid = req[p].orderId /\ req[s].status = "cancelled" /\ req[s].res = 200
    /\ req[s].pre.db.stock # req[p].pre.db.stock
    /\ store.committed.stock = req[p].pre.db.stock

\* C7: idempotent cancellation: a transition to 'cancelled' of an order that is
\* already 'cancelled' leaves every book's stock unchanged.
C7_CancelIdempotent ==
  \A r \in ReqIds :
    ( /\ StatusSettled(r) /\ Known(r) /\ req[r].status = "cancelled"
      /\ req[r].pre.db.orders[req[r].oid].status = "cancelled" )
    => /\ store.db.stock = req[r].pre.db.stock
       /\ store.committed.stock = req[r].pre.db.stock

C7_Witness ==
  \E r \in ReqIds :
    /\ StatusSettled(r) /\ Known(r) /\ req[r].status = "cancelled"
    /\ req[r].pre.db.orders[req[r].oid].status = "cancelled"
    /\ OrderItems(req[r].pre.db, req[r].oid) # <<>>
    /\ req[r].res = 200

\* C8: atomicity of cancellation: when a restock UPDATE of a transition to
\* 'cancelled' fails, then once the handler is over the order's status is its
\* previous value and every book's stock is what it was before the request.
C8_CancelAtomic ==
  \A r \in ReqIds :
    ( StatusSettled(r) /\ Known(r) /\ req[r].status = "cancelled" /\ req[r].stockErr )
    => /\ store.db.orders[req[r].oid].status = req[r].pre.db.orders[req[r].oid].status
       /\ store.db.stock = req[r].pre.db.stock

\* C9: a transition restocks if and only if the target is 'cancelled' and the
\* previous status was not: then every order item's quantity is added to its
\* book's stock exactly once; otherwise the stock is unchanged.  In both cases
\* the order's status is the target and nothing else changes.
C9_Expected(d, oid, target) ==
  [b \in Books |->
     IF target = "cancelled" /\ d.orders[oid].status # "cancelled"
     THEN d.stock[b] + QtyOf(OrderItems(d, oid), b)
     ELSE d.stock[b]]

C9_RestockIff ==
  \A r \in ReqIds :
    ( StatusSettled(r) /\ Known(r) /\ req[r].res = 200 /\ alive )
    => LET d == req[r].pre.db
       IN /\ store.db.stock = C9_Expected(d, req[r].oid, req[r].status)
          /\ store.db.orders = [d.orders EXCEPT ![req[r].oid].status = req[r].status]
          /\ store.db.items = d.items
          /\ store.db.price = d.price
          /\ store.committed = store.db

C9_Witness ==
  \E r \in ReqIds :
    /\ StatusSettled(r) /\ Known(r) /\ req[r].res = 200 /\ alive
    /\ req[r].status = "cancelled"
    /\ req[r].pre.db.orders[req[r].oid].status = "pending"
    /\ Len(OrderItems(req[r].pre.db, req[r].oid)) = 2
    /\ store.db.stock # req[r].pre.db.stock

\* C10: a status request with a target outside the five statuses, or naming an
\* order that does not exist, is answered with an error, changes no order's
\* status and no book's stock, and leaves no transaction open.
C10_RejectedStatus ==
  \A r \in ReqIds :
    ( /\ StatusSettled(r)
      /\ \/ req[r].status \notin {"pending", "processing", "shipped", "delivered", "cancelled"}
         \/ ~Known(r) )
    => /\ req[r].res \in {400, 404}
       /\ store.db.orders = req[r].pre.db.orders
       /\ store.db.stock = req[r].pre.db.stock
       /\ store.committed = req[r].pre.committed
       /\ ~store.inTxn
       /\ alive

C10_Witness ==
  \E r \in ReqIds :
    /\ StatusSettled(r) /\ ~Known(r) /\ req[r].res = 404
    /\ req[r].pre.db.orders # <<>>

\* Request r is a supplier-order status update to 'Received', answered 200, of
\* a supplier order that was not 'Received' when the request arrived.
Receipt(r) ==
  /\ req[r].kind = "supplierStatus" /\ req[r].status = "Received" /\ req[r].res = 200
  /\ req[r].oid \in 1..Len(req[r].pre.committed.supplier_orders)
  /\ req[r].pre.committed.supplier_orders[req[r].oid].status # "Received"

\* Request q is a placement refused for its invalid lines, with no other line.
Harmless(q) ==
  /\ req[q].kind = "order" /\ req[q].res = 400
  /\ \A i \in 1..Len(req[q].items) : InvalidItem(req[q].items[i])

\* C11: supplier receipt credits stock: when an update to 'Received' of a
\* supplier order (of a positive quantity) that was not 'Received' answers
\* success, and nothing else but refused placements was handled, the book's
\* stock ends up increased by exactly the supplier order's quantity.
C11_ReceiptCredits ==
  \A r \in ReqIds :
    ( /\ r <= nreq /\ Quiescent /\ alive /\ Receipt(r)
      /\ req[r].pre.committed.supplier_orders[req[r].oid].quantity > 0
      /\ \A q \in 1..nreq : q = r \/ Harmless(q) )
    => LET so == req[r].pre.committed.supplier_orders[req[r].oid]
       IN store.committed.stock[so.book_id]
            = req[r].pre.committed.stock[so.book_id] + so.quantity

\* Request r, handled alone and over, is a supplier-order status update of a
\* supplier order that existed when the request arrived.
SupplierSettled(r) ==
  /\ Settled(r) /\ req[r].kind = "supplierStatus"
  /\ req[r].oid \in 1..Len(req[r].pre.db.supplier_orders)

\* C12: idempotent receipt: an update to 'Received' of a supplier order whose
\* status is already 'Received' leaves every book's stock unchanged.
C12_ReceiptIdempotent ==
  \A r \in ReqIds :
    ( /\ SupplierSettled(r) /\ req[r].status = "Received"
      /\ req[r].pre.db.supplier_orders[req[r].oid].status = "Received" )
    => /\ store.db.stock = req[r].pre.db.stock
       /\ store.committed.stock = req[r].pre.db.stock

C12_Witness ==
  \E r \in ReqIds :
    /\ SupplierSettled(r) /\ req[r].status = "Received" /\ req[r].res = 200
    /\ req[r].pre.db.supplier_orders[req[r].oid].status = "Received"
    /\ req[r].pre.db.supplier_orders[req[r].oid].quantity > 0
    /\ store.db.supplier_orders[req[r].oid].status = "Received"

\* C13: price freezing: a change of a book's price through PUT /api/books/:id
\* leaves the total_amount of every order and the price_at_purchase (and every
\* other column) of every order item unchanged, however often it is repeated.
C13_PriceFrozen ==
  [][ExecBUpd => /\ store'.db.orders = store.db.orders
                 /\ store'.db.items = store.db.items
                 /\ store'.committed.orders = store.committed.orders
                 /\ store'.committed.items = store.committed.items]_vars

\* The price of a book of a committed order was changed after the placement.
C13_Witness ==
  \E r \in ReqIds, k \in DOMAIN store.committed.items :
    /\ r <= nreq /\ req[r].kind = "bookUpdate" /\ req[r].res = 200 /\ Done(r)
    /\ store.committed.items[k].book_id = req[r].oid
    /\ store.committed.price[req[r].oid] # store.committed.items[k].price_at_purchase
    /\ req[r].pre.committed.price[req[r].oid] = store.committed.items[k].price_at_purchase

\* Sum of price_at_purchase * quantity over the rows of items of order oid.
RECURSIVE ItemsTotal(_, _)
ItemsTotal(items, oid) ==
  IF items = <<>> THEN 0
  ELSE (IF Head(items).order_id = oid
        THEN Head(items).price_at_purchase * Head(items).quantity ELSE 0)
       + ItemsTotal(Tail(items), oid)

\* The statements the connection holds, in flight or waiting.
Held(c) == c.pending \cup {c.queue[k].call : k \in 1..Len(c.queue)}

\* C14: for every committed order, total_amount is the sum over its order items
\* of price_at_purchase times quantity, and the price a line carries on is the
\* book's price read in the same step as that line's stock check; also when the
\* price is changed while the placement is being handled.
C14_TotalIsSum ==
  /\ [](\A oid \in 1..Len(store.committed.orders) :
          store.committed.orders[oid].total_amount = ItemsTotal(store.committed.items, oid))
  /\ [][ExecPGet =>
          \A stmt \in Held(conn') \ Held(conn) :
            stmt.op = "P_UPD" => /\ stmt.a[3] = store.db.price[stmt.a[1]]
                                 /\ stmt.a[2] <= store.db.stock[stmt.a[1]]]_vars

\* C15: every order created by POST /api/orders has status 'pending' at
\* creation, user_id equal to the authenticated user, and employee_id equal to
\* the user's id if the user's role is cashier or admin, and null otherwise.
C15_OrderFields ==
  \A r \in ReqIds :
    ( /\ r <= nreq /\ req[r].kind = "order"
      /\ req[r].orderId > Len(req[r].pre.db.orders)
      /\ req[r].orderId <= Len(store.db.orders) )
    => LET o == store.db.orders[req[r].orderId] IN
       /\ o.status = "pending"
       /\ o.user_id = req[r].user.userId
       /\ o.employee_id = IF req[r].user.role \in {"cashier", "admin"}
                          THEN req[r].user.userId ELSE Null

\* An admin has placed an order, and it is committed.
C15_Witness ==
  \E r \in ReqIds :
    /\ r <= nreq /\ req[r].kind = "order" /\ req[r].res = 201
    /\ req[r].user.role = "admin"
    /\ req[r].orderId = Len(store.committed.orders)
    /\ store.committed.orders[req[r].orderId].employee_id = req[r].user.userId

\* C16: validation errors of a placement are rejected before any state change:
\* a cart that is empty, or that has a line with no book reference or with a
\* quantity <= 0, is answered with an error, and once the handler is over no
\* book's stock has changed and no orders or order_items row was added,
\* whatever the other lines of the cart are.
C16_ValidationFirst ==
  \A r \in ReqIds :
    ( /\ Settled(r) /\ req[r].kind = "order"
      /\ \/ req[r].items = <<>>
         \/ \E i \in 1..Len(req[r].items) : InvalidItem(req[r].items[i]) )
    => /\ req[r].res = 400
       /\ store.db.stock = req[r].pre.db.stock /\ store.committed.stock = req[r].pre.db.stock
       /\ store.db.orders = req[r].pre.db.orders /\ store.committed.orders = req[r].pre.db.orders
       /\ store.db.items = req[r].pre.db.items /\ store.committed.items = req[r].pre.db.items

\* C17: every POST /api/orders request produces exactly one response: the
\* handler never attempts to send a second response for the same request, also
\* for carts in which two or more lines fail, and once the handler is over a
\* response has been sent.
C17_OneResponse ==
  \A r \in ReqIds :
    (r <= nreq /\ req[r].kind = "order" /\ req[r].solo)
    => /\ ~req[r].again
       /\ (Done(r) /\ alive) => req[r].res \in {201, 400, 404, 500}

\* C18: a book that appears in an existing order's items can be deleted with
\* DELETE /api/books/:id: the request succeeds, the book is gone, and the
\* orders and their order_items rows are still there, unchanged.
C18_DeleteOrderedBook ==
  \A r \in ReqIds :
    ( /\ Settled(r) /\ req[r].kind = "bookDelete"
      /\ req[r].oid \in DOMAIN req[r].pre.db.stock
      /\ \E k \in DOMAIN req[r].pre.db.items : req[r].pre.db.items[k].book_id = req[r].oid )
    => /\ req[r].res = 200
       /\ req[r].oid \notin DOMAIN store.committed.stock
       /\ store.committed.orders = req[r].pre.db.orders
       /\ store.committed.items = req[r].pre.db.items

\* C19: POST /api/supplier-orders never stores a supplier order with a zero or
\* negative quantity: every supplier_orders row stored since the start has
\* quantity > 0.
C19_PositiveQuantity ==
  \A k \in DOMAIN store.committed.supplier_orders :
    k > Len(Supplier0) => store.committed.supplier_orders[k].quantity > 0

C21_PaymentConfirms ==
  \A r \in ReqIds :
    ( /\ Settled(r) /\ alive /\ req[r].kind = "payment"
      /\ req[r].oid \in 1..Len(req[r].pre.db.orders)
      /\ req[r].status = "credit_card" /\ req[r].qty \in 13..19 )
    => /\ req[r].res = 200
       /\ store.committed.orders[req[r].oid].status = "Confirmed"

\* Request r is a status transition by a user who is neither admin nor
\* cashier, or a supplier-order status update by a user who is not admin.
Denied(r) ==
  \/ req[r].kind = "status" /\ req[r].user.role \notin {"admin", "cashier"}
  \/ req[r].kind = "supplierStatus" /\ req[r].user.role # "admin"

C23_CreditOnce ==
  \A k \in DOMAIN Supplier0 :
    Supplier0[k].quantity > 0
    => store.committed.stock[Supplier0[k].book_id]
         <= Stock0[Supplier0[k].book_id] + Supplier0[k].quantity

\* C24: an order restocks at most what it reserved: over any sequence of status
\* transitions (such as cancelled, processing, cancelled) of an order that was
\* pending at the start, with no storage error, the stock of each book never
\* exceeds its value at the start plus the order's quantity of that book.
C24_RestockAtMostReserved ==
  \A b \in Books :
    ( /\ nreq >= 1 /\ faults = 0
      /\ req[1].pre.db.orders # <<>>
      /\ req[1].pre.db.orders[1].status = "pending" )
    => store.committed.stock[b]
         <= req[1].pre.db.stock[b] + QtyOf(OrderItems(req[1].pre.db, 1), b)

\* C25: concurrent cancellations restock once: when two requests to cancel the
\* same order, not cancelled when the first arrived, are in flight at the same
\* time, no other request names that order and no statement fails for a
\* storage error, then once all handlers are over and both requests were
\* answered 200, every book's stock is its value before the first request plus
\* the order's quantity of that book, exactly once.
CancelPair(r1, r2) ==
  /\ r1 < r2 /\ r1 \in req[r2].with /\ Quiescent /\ faults = 0
  /\ req[r1].kind = "status" /\ req[r2].kind = "status"
  /\ req[r1].status = "cancelled" /\ req[r2].status = "cancelled"
  /\ req[r1].oid = req[r2].oid /\ Known(r1)
  /\ req[r1].pre.db.orders[req[r1].oid].status # "cancelled"
  /\ req[r1].res = 200 /\ req[r2].res = 200
  /\ \A q \in 1..nreq : q \notin {r1, r2} => req[q].oid # req[r1].oid

C25_ConcurrentCancelOnce ==
  \A r1, r2 \in ReqIds :
    CancelPair(r1, r2)
    => \A b \in Books :
         store.committed.stock[b]
           = req[r1].pre.db.stock[b] + QtyOf(OrderItems(req[r1].pre.db, req[r1].oid), b)

\* C26: concurrent receipts credit once: when two updates to 'Received' of the
\* same supplier order (of a positive quantity, not 'Received' when the first
\* arrived) are in flight at the same time and no statement fails for a storage
\* error, then once both handlers are over the book's stock is its value
\* before the first request plus the supplier order's quantity, exactly once.
C26_ConcurrentReceiptOnce ==
  \A r1, r2 \in ReqIds :
    ( /\ r2 = nreq /\ r1 \in req[r2].with /\ Quiescent /\ alive /\ faults = 0
      /\ Receipt(r1)
      /\ req[r2].kind = "supplierStatus" /\ req[r2].status = "Received"
      /\ req[r2].oid = req[r1].oid /\ req[r2].res = 200
      /\ req[r1].pre.committed.supplier_orders[req[r1].oid].quantity > 0 )
    => LET so == req[r1].pre.committed.supplier_orders[req[r1].oid]
       IN store.committed.stock[so.book_id]
            = req[r1].pre.committed.stock[so.book_id] + so.quantity

\* Request r, handled alone and over, is a placement whose cart names one book
\* on two lines, each line within the stock the request found and their sum
\* beyond it.
SplitCart(r) ==
  /\ Settled(r) /\ req[r].kind = "order" /\ Len(req[r].items) = 2
  /\ ~InvalidItem(req[r].items[1]) /\ ~InvalidItem(req[r].items[2])
  /\ req[r].items[1].book_id = req[r].items[2].book_id
  /\ req[r].items[1].book_id \in Books
  /\ req[r].items[1].quantity <= req[r].pre.db.stock[req[r].items[1].book_id]
  /\ req[r].items[2].quantity <= req[r].pre.db.stock[req[r].items[1].book_id]
  /\ req[r].items[1].quantity + req[r].items[2].quantity
       > req[r].pre.db.stock[req[r].items[1].book_id]

ActiveQty(d, b) ==
  QtyOf(SelectSeq(d.items, LAMBDA it : /\ it.order_id \in 1..Len(d.orders)
                                       /\ d.orders[it.order_id].status # "cancelled"), b)
Conserved(d) == [b \in Books |-> d.stock[b] + ActiveQty(d, b)]

\* C28: stock conservation: in every quiescent state reached by placements and
\* order status transitions alone, with no storage error, every book's stock
\* plus the quantities of that book on the orders that are not 'cancelled' is
\* what it was before the first request.
C28_StockConservation ==
  (nreq >= 1 /\ Quiescent /\ alive /\ faults = 0)
  => Conserved(store.committed) = Conserved(req[1].pre.committed)

\* Request r is a placement or an order status transition that arrived when no
\* transaction was open on the connection.
Fresh(r) ==
  /\ r <= nreq /\ req[r].kind \in {"order", "status"}
  /\ ~req[r].pre.inTxn

\* C29: every placement and every order status transition is eventually
\* answered, and once all the database callbacks of such a request (handled
\* alone) have run, no transaction it began is still open on the connection.
C29_AnsweredAndClosed ==
  /\ \A r \in ReqIds : Fresh(r) ~> (req[r].res # 0)
  /\ [](\A r \in ReqIds : (Fresh(r) /\ Settled(r) /\ alive) => ~store.inTxn)

\* The email addresses of the registered users, as decryptData gives them.
EmailsOf(d) == [k \in DOMAIN d.users |-> decryptData(d.users[k].email)]

\* C30: in every reachable state no two registered users have the same email
\* address.
C30_EmailUnique ==
  \A i, k \in DOMAIN store.committed.users :
    i # k => EmailsOf(store.committed)[i] # EmailsOf(store.committed)[k]

\* Between requests no transaction is open.
NoOpenTxn == (alive /\ Quiescent) => ~store.inTxn

====
